---- MODULE Spec2Model ----
(***************************************************************************)
(* Footprint posting service (src/app.py): one SQLite table `footprints`,  *)
(* an upload directory, and the Flask handlers create_footprint,           *)
(* get_footprints, delete_footprint and get_stats.                         *)
(*                                                                         *)
(* create_footprint and delete_footprint commit one statement and are one  *)
(* step each.  get_footprints and get_stats issue several separate SELECTs *)
(* on a connection in autocommit mode, so every SELECT is a step of its    *)
(* own and the writes of other clients may commit in between.  One client  *)
(* reads (one list or stats request in flight at a time); reads change no  *)
(* stored state, so two reads in flight together add no behaviour of the   *)
(* store.                                                                  *)
(*                                                                         *)
(* SpecWrite: the writing handlers under every shape of create request.    *)
(* Spec:      all four handlers, clients posting complete requests.        *)
(***************************************************************************)
EXTENDS Integers, Sequences, FiniteSets, TLC

\* ------------------------------------------------------------------ bounds
MaxRows == 2      \* creates that insert a row
MaxTime == 1      \* clock ticks (seconds)

\* -------------------------------------------------------- program constants
DefaultPage     == 1
DefaultPageSize == 20
TopUsersLimit   == 5

\* Seconds per calendar day, scaled to the clock: its last second is the
\* first of the next day.
DayLen == MaxTime

\* SQL NULL / Python None / absent JSON key
Null == "<null>"

VARIABLES
    rows,       \* table footprints: id -> row
    seq,        \* sqlite_sequence of the AUTOINCREMENT key
    files,      \* upload directory: file name -> bytes
    now,        \* wall clock, seconds (UTC)
    resp,       \* the response sent last
    returned,   \* history: ids returned by successful creates, in order
    hist,       \* history: the case the last response was produced in
    pc_list, page, page_size, offset, l_total,          \* get_footprints
    pc_stats, total, with_image, today_count, dirty     \* get_stats

vars == <<rows, seq, files, now, resp, returned, hist,
          pc_list, page, page_size, offset, l_total,
          pc_stats, total, with_image, today_count, dirty>>

store     == <<rows, seq, files>>
listVars  == <<pc_list, page, page_size, offset, l_total>>
statsVars == <<pc_stats, total, with_image, today_count>>

\* ------------------------------------------------------------------ inputs
UserNames == {Null, "", "alice"}
Contents  == {Null, "", "hello"}

\* An imageData string, split as save_image splits it: the tokens before the
\* first ',' and the text after it.
NoImage   == [isNull |-> TRUE,  header |-> <<>>, hasComma |-> FALSE, data |-> ""]
EmptyStr  == [isNull |-> FALSE, header |-> <<>>, hasComma |-> FALSE, data |-> ""]
PlainText == [isNull |-> FALSE, header |-> <<"hello">>, hasComma |-> FALSE, data |-> ""]
NoComma   == [isNull |-> FALSE, header |-> <<"data:image/", "png", ";base64">>,
              hasComma |-> FALSE, data |-> ""]
BadBase64 == [isNull |-> FALSE, header |-> <<"data:image/", "png", ";base64">>,
              hasComma |-> TRUE, data |-> "abc"]
GoodPng   == [isNull |-> FALSE, header |-> <<"data:image/", "png", ";base64">>,
              hasComma |-> TRUE, data |-> "aGk="]
ImageDatas == {NoImage, EmptyStr, PlainText, NoComma, BadBase64, GoodPng}

CreateRequests == [userName : UserNames, content : Contents, imageData : ImageDatas]

\* The requests of clients that post well-formed footprints only
PostRequests ==
    {[userName |-> "alice", content |-> "hello", imageData |-> NoImage],
     [userName |-> "bob", content |-> Null, imageData |-> GoodPng]}

RandomHex == {"0a1b2c3d"}
RemoteAddr == "10.0.0.1"
UserAgent  == "ua"

IdArgs == 1 .. (MaxRows + 1)

\* A query-string argument: absent, not a number, or an integer
Absent == [kind |-> "absent", val |-> 0]
NotInt == [kind |-> "text", val |-> 0]
IntArg(n) == [kind |-> "int", val |-> n]
PageArgs     == {Absent, NotInt, IntArg(0), IntArg(2)}
PageSizeArgs == {Absent, IntArg(-1), IntArg(0), IntArg(1)}

\* datetime.now() is local time, DATE(timestamp) is UTC: the server's zone
\* is not set by the program, so each reading of the local date may be off
\* by any of these offsets.
TzOffsets == {0, 1}

\* ----------------------------------------------------------------- helpers
\* Faulty variant: a test against None only, so that '' counts as a value
TruthyNotNone(s) == s /= Null

\* Python truthiness of a str-or-None
Truthy(s) == s /= Null /\ s /= ""
TruthyImage(p) == ~p.isNull /\ (p.header /= <<>> \/ p.hasComma)

StartsWithDataImage(p) == Len(p.header) >= 1 /\ p.header[1] = "data:image/"
InHeader(tok, p) == \E i \in 1 .. Len(p.header) : p.header[i] = tok

\* base64.b64decode: the decoded bytes, or an exception (incorrect padding)
B64Decodable(d) == d \in {"", "aGk="}
B64Decode(d) == IF d = "aGk=" THEN "hi" ELSE ""

Ext(p) ==
    IF InHeader("png", p) THEN "png"
    ELSE IF InHeader("jpeg", p) \/ InHeader("jpg", p) THEN "jpg"
    ELSE IF InHeader("gif", p) THEN "gif"
    ELSE "png"

FileName(t, rnd, ext) == ToString(t) \o "_" \o rnd \o "." \o ext

WriteFile(fs, name, bytes) ==
    [n \in DOMAIN fs \cup {name} |-> IF n = name THEN bytes ELSE fs[n]]

\* save_image: the reference returned and the upload directory afterwards.
\* open(filepath, 'wb') creates or truncates the file before b64decode runs.
save_image(p, t, rnd, fs) ==
    IF ~TruthyImage(p) \/ ~StartsWithDataImage(p)
    THEN [url |-> Null, files |-> fs]
    ELSE IF ~p.hasComma
    THEN [url |-> Null, files |-> fs]
    ELSE LET filename == FileName(t, rnd, Ext(p))
             opened   == WriteFile(fs, filename, "")
         IN  IF B64Decodable(p.data)
             THEN [url   |-> "/uploads/" \o filename,
                   files |-> WriteFile(fs, filename, B64Decode(p.data))]
             ELSE [url |-> Null, files |-> opened]

\* ------------------------------------------------------------------ storage
Max(S) == CHOOSE x \in S : \A y \in S : y <= x

\* Faulty variant: the key numbered after the rows that are not deleted
NextIdFromLive(rs, sq) == Cardinality({i \in DOMAIN rs : rs[i].is_deleted = 0}) + 1

\* INTEGER PRIMARY KEY AUTOINCREMENT
NextId(rs, sq) == Max(DOMAIN rs \cup {sq}) + 1

Insert(rs, id, username, content, image_url, t) ==
    [i \in DOMAIN rs \cup {id} |->
        IF i = id
        THEN [username |-> username, content |-> content, image_url |-> image_url,
              timestamp |-> t, ip_address |-> RemoteAddr, user_agent |-> UserAgent,
              is_deleted |-> 0]
        ELSE rs[i]]

\* Faulty variant: the flag flipped instead of set
MarkDeletedToggle(rs, id) ==
    [i \in DOMAIN rs |->
        IF i = id THEN [rs[i] EXCEPT !.is_deleted = 1 - rs[i].is_deleted] ELSE rs[i]]

\* Faulty variant: INSERT OR REPLACE of a deleted row, which adds one for a missing id
MarkDeletedUpsert(rs, id) ==
    [i \in DOMAIN rs \cup {id} |->
        IF i /= id THEN rs[i]
        ELSE IF i \in DOMAIN rs THEN [rs[i] EXCEPT !.is_deleted = 1]
        ELSE [username |-> "", content |-> Null, image_url |-> Null, timestamp |-> 0,
              ip_address |-> RemoteAddr, user_agent |-> UserAgent, is_deleted |-> 1]]

\* UPDATE footprints SET is_deleted = 1 WHERE id = ?
MarkDeleted(rs, id) ==
    [i \in DOMAIN rs |-> IF i = id THEN [rs[i] EXCEPT !.is_deleted = 1] ELSE rs[i]]

\* Faulty variant: the filter on is_deleted left out
LiveAnyRow(rs) == DOMAIN rs

\* WHERE is_deleted = 0
Live(rs) == {i \in DOMAIN rs : rs[i].is_deleted = 0}

Footprint(rs, i) ==
    [id |-> i, userName |-> rs[i].username, content |-> rs[i].content,
     imageUrl |-> rs[i].image_url, timestamp |-> rs[i].timestamp]

NoResp == [op |-> "none", status |-> 0, success |-> FALSE, message |-> "",
           id |-> 0]

\* ------------------------------------------------------------------ create
create_footprint(data, rnd) ==
    IF ~Truthy(data.userName)
    THEN /\ resp' = [op |-> "create", status |-> 400, success |-> FALSE,
                     message |-> "username must not be empty", id |-> 0]
         /\ UNCHANGED <<store, returned, dirty>>
    ELSE IF ~Truthy(data.content) /\ ~TruthyImage(data.imageData)
    THEN /\ resp' = [op |-> "create", status |-> 400, success |-> FALSE,
                     message |-> "content or image required", id |-> 0]
         /\ UNCHANGED <<store, returned, dirty>>
    ELSE LET saved     == IF TruthyImage(data.imageData)
                          THEN save_image(data.imageData, now, rnd, files)
                          ELSE [url |-> Null, files |-> files]
             new_id    == NextId(rows, seq)
         IN  /\ seq < MaxRows
             /\ files' = saved.files
             /\ rows' = Insert(rows, new_id, data.userName, data.content, saved.url, now)
             /\ seq' = new_id
             /\ resp' = [op |-> "create", status |-> 200, success |-> TRUE,
                         message |-> "created", id |-> new_id,
                         data |-> Footprint(rows', new_id)]
             /\ returned' = Append(returned, new_id)
             /\ dirty' = (pc_stats /= "total")

\* What a create request lacks: the case hist records for it
RequestCase(data) ==
    IF data.userName \in {Null, ""} THEN "no author"
    ELSE IF data.content \in {Null, ""} /\ data.imageData \in {NoImage, EmptyStr}
    THEN "no body"
    ELSE "complete"

CreateFootprint ==
    /\ \E data \in CreateRequests, rnd \in RandomHex :
          create_footprint(data, rnd) /\ hist' = RequestCase(data)
    /\ UNCHANGED <<now, listVars, statsVars>>

Post ==
    /\ \E data \in PostRequests, rnd \in RandomHex :
          create_footprint(data, rnd) /\ hist' = RequestCase(data)
    /\ UNCHANGED <<now, listVars, statsVars>>

\* ------------------------------------------------------------------ delete
delete_footprint(footprint_id) ==
    /\ rows' = MarkDeleted(rows, footprint_id)
    /\ resp' = [op |-> "delete", status |-> 200, success |-> TRUE,
                message |-> "deleted", id |-> footprint_id]
    /\ hist' = (IF footprint_id \notin DOMAIN rows THEN "missing"
                ELSE IF rows[footprint_id].is_deleted = 1 THEN "deleted" ELSE "live")
    /\ dirty' = (pc_stats /= "total")
    /\ UNCHANGED <<seq, files, returned>>

DeleteFootprint ==
    /\ \E footprint_id \in IdArgs : delete_footprint(footprint_id)
    /\ UNCHANGED <<now, listVars, statsVars>>

\* ------------------------------------------------------------- list (GET)
Min(a, b) == IF a <= b THEN a ELSE b

\* int(request.args.get(name, default)); ok = FALSE is the ValueError
ParseInt(arg, default) ==
    IF arg.kind = "absent" THEN [ok |-> TRUE, val |-> default]
    ELSE IF arg.kind = "int" THEN [ok |-> TRUE, val |-> arg.val]
    ELSE [ok |-> FALSE, val |-> 0]

\* Python's a // b for b /= 0
FloorDiv(a, b) == IF b > 0 THEN a \div b ELSE (0 - a) \div (0 - b)

Perms(S) ==
    {s \in [1 .. Cardinality(S) -> S] : \A i, j \in DOMAIN s : i /= j => s[i] /= s[j]}

\* ORDER BY timestamp DESC: every order of the matching rows that is
\* descending in timestamp; SQL leaves the order of equal timestamps open.
OrderByTimestampDesc(rs, ids) ==
    {s \in Perms(ids) :
        \A i, j \in DOMAIN s : i < j => rs[s[i]].timestamp >= rs[s[j]].timestamp}

\* LIMIT ? OFFSET ? of SQLite: a negative LIMIT is no limit, a negative
\* OFFSET is 0.
LimitOffset(s, limit, off) ==
    LET o    == IF off < 0 THEN 0 ELSE off
        last == IF limit < 0 THEN Len(s) ELSE Min(Len(s), o + limit)
    IN  IF o + 1 > last THEN <<>> ELSE SubSeq(s, o + 1, last)

Range(s) == {s[i] : i \in DOMAIN s}

ErrorResp(op) == [op |-> op, status |-> 500, success |-> FALSE,
                  message |-> "failed", id |-> 0]

\* lines 121-130: parse the arguments, SELECT COUNT(*)
ListCount ==
    /\ pc_list = "count"
    /\ pc_stats = "total"          \* the reading client is idle
    /\ \E pa \in PageArgs, sa \in PageSizeArgs :
          LET p == ParseInt(pa, DefaultPage)
              z == ParseInt(sa, DefaultPageSize)
          IN  IF ~p.ok \/ ~z.ok
              THEN /\ resp' = ErrorResp("list")
                   /\ hist' = "failed"
                   /\ UNCHANGED listVars
              ELSE /\ page' = p.val
                   /\ page_size' = z.val
                   /\ offset' = (p.val - 1) * z.val
                   /\ l_total' = Cardinality(Live(rows))
                   /\ pc_list' = "select"
                   /\ UNCHANGED <<resp, hist>>
    /\ UNCHANGED <<store, now, returned, statsVars, dirty>>

\* lines 133-161: SELECT ... LIMIT ? OFFSET ?, build the response
ListSelect ==
    /\ pc_list = "select"
    /\ \E ord \in OrderByTimestampDesc(rows, Live(rows)) :
          LET got == LimitOffset(ord, page_size, offset)
          IN  IF page_size = 0
              THEN resp' = ErrorResp("list")
              ELSE resp' = [op |-> "list", status |-> 200, success |-> TRUE,
                                  message |-> "", id |-> 0,
                                  data |-> [k \in DOMAIN got |-> Footprint(rows, got[k])],
                                  pagination |->
                                     [page |-> page, page_size |-> page_size,
                                      total |-> l_total,
                                      total_pages |->
                                         FloorDiv(l_total + page_size - 1, page_size)]]
    /\ hist' = "listed"
    /\ pc_list' = "count" /\ page' = 0 /\ page_size' = 0 /\ offset' = 0 /\ l_total' = 0
    /\ UNCHANGED <<store, now, returned, statsVars, dirty>>

\* ------------------------------------------------------------ stats (GET)
\* DATE(timestamp) of a UTC timestamp; strftime('%Y-%m-%d') of local time
Date(t) == t \div DayLen
Today(tz) == Date(now + tz)

\* Faulty variant: AND is_deleted = 0 left out of the second count
WithImageAnyRow(rs) == {i \in DOMAIN rs : rs[i].image_url /= Null}

\* WHERE image_url IS NOT NULL AND is_deleted = 0
WithImage(rs) == {i \in Live(rs) : rs[i].image_url /= Null}
CreatedOn(rs, d) == {i \in Live(rs) : Date(rs[i].timestamp) = d}

Users(rs) == {rs[i].username : i \in Live(rs)}
CountOf(rs, u) == Cardinality({i \in Live(rs) : rs[i].username = u})

\* GROUP BY username ORDER BY count DESC LIMIT 5
TopUsers(rs) ==
    {[k \in DOMAIN LimitOffset(s, TopUsersLimit, 0) |->
         [username |-> s[k], count |-> CountOf(rs, s[k])]] :
       s \in {t \in Perms(Users(rs)) :
                \A i, j \in DOMAIN t : i < j => CountOf(rs, t[i]) >= CountOf(rs, t[j])}}

StatsTotal ==
    /\ pc_stats = "total"
    /\ pc_list = "count"           \* the reading client is idle
    /\ total' = Cardinality(Live(rows))
    /\ pc_stats' = "with_image"
    /\ dirty' = FALSE
    /\ UNCHANGED <<store, now, resp, returned, hist, listVars, with_image, today_count>>

StatsWithImage ==
    /\ pc_stats = "with_image"
    /\ with_image' = Cardinality(WithImage(rows))
    /\ pc_stats' = "today"
    /\ UNCHANGED <<store, now, resp, returned, hist, listVars, total, today_count, dirty>>

StatsToday ==
    /\ pc_stats = "today"
    /\ \E tz \in TzOffsets : today_count' = Cardinality(CreatedOn(rows, Today(tz)))
    /\ pc_stats' = "top_users"
    /\ UNCHANGED <<store, now, resp, returned, hist, listVars, total, with_image, dirty>>

StatsTopUsers ==
    /\ pc_stats = "top_users"
    /\ \E top_users \in TopUsers(rows) :
          resp' = [op |-> "stats", status |-> 200, success |-> TRUE,
                   message |-> "", id |-> 0,
                   data |-> [total_footprints |-> total, with_images |-> with_image,
                             today_count |-> today_count, top_users |-> top_users]]
    /\ hist' = (IF dirty THEN "raced" ELSE "quiet")
    /\ pc_stats' = "total" /\ total' = 0 /\ with_image' = 0 /\ today_count' = 0
    /\ dirty' = FALSE
    /\ UNCHANGED <<store, now, returned, listVars>>

\* ------------------------------------------------------------------- clock
Tick ==
    /\ now < MaxTime
    /\ now' = now + 1
    /\ UNCHANGED <<store, resp, returned, hist, listVars, statsVars, dirty>>

Init ==
    /\ rows = <<>>
    /\ seq = 0
    /\ files = <<>>
    /\ now = 0
    /\ resp = NoResp
    /\ returned = <<>>
    /\ hist = ""
    /\ pc_list = "count" /\ page = 0 /\ page_size = 0 /\ offset = 0 /\ l_total = 0
    /\ pc_stats = "total" /\ total = 0 /\ with_image = 0 /\ today_count = 0
    /\ dirty = FALSE

Writes == CreateFootprint \/ DeleteFootprint \/ Tick
Posts  == Post \/ DeleteFootprint \/ Tick
Lists  == ListCount \/ ListSelect
Stats  == StatsTotal \/ StatsWithImage \/ StatsToday \/ StatsTopUsers

SpecWrite == Init /\ [][Writes]_vars
Spec      == Init /\ [][Posts \/ Lists \/ Stats]_vars

\* ================================================================== claims
NotDeleted(rs) == {i \in DOMAIN rs : rs[i].is_deleted = 0}
IdsOf(data) == [k \in DOMAIN data |-> data[k].id]

\* The steps of the two read handlers, told by their program counters
ListAnswers     == pc_list = "select" /\ pc_list' = "count" /\ resp'.status = 200
TotalCounted    == pc_stats = "total" /\ pc_stats' = "with_image"
ImagesCounted   == pc_stats = "with_image" /\ pc_stats' = "today"
TodayCounted    == pc_stats = "today" /\ pc_stats' = "top_users"
StatsAnswers    == pc_stats = "top_users" /\ pc_stats' = "total"
\* delete_footprint answers for the id its response names
DeleteAnswers   == resp'.op = "delete" /\ delete_footprint(resp'.id)

\* C1: every stored post has a non-empty content or a non-null image
\* reference, whatever create requests were made.
C1_ContentOrImage ==
    \A i \in DOMAIN rows :
        rows[i].content \notin {Null, ""} \/ rows[i].image_url /= Null

\* C2: the id returned by each successful create is strictly greater than
\* the id returned by every earlier successful create.
C2_IdsIncrease ==
    \A i, j \in DOMAIN returned : i < j => returned[i] < returned[j]

\* a second create has returned after the first post was soft-deleted
C2_Witness ==
    /\ hist = "complete" /\ resp.status = 200
    /\ Len(returned) >= 2
    /\ rows[returned[1]].is_deleted = 1

C4_DeleteIdempotent ==
    [][/\ (DeleteAnswers /\ resp'.id \in DOMAIN rows)
          => /\ resp'.success /\ resp'.status = 200
             /\ rows'[resp'.id].is_deleted = 1
             /\ rows[resp'.id].is_deleted = 1
                => rows' = rows /\ seq' = seq /\ files' = files
       /\ ListAnswers
          => \A i \in DOMAIN rows :
                rows[i].is_deleted = 1 => i \notin Range(IdsOf(resp'.data))]_vars

\* the second delete of a post has been answered
C4_Witness ==
    /\ hist = "deleted"
    /\ resp.op = "delete" /\ resp.success
    /\ rows[resp.id].is_deleted = 1

StatsAgree ==
    /\ resp'.data.total_footprints = Cardinality(NotDeleted(rows'))
    /\ resp'.data.with_images <= resp'.data.total_footprints

\* C5 as claimed: every stats response has total_footprints equal to the
\* number of posts that are not deleted and with_images <= total_footprints,
\* also when writes commit between the counting queries.
C5_StatsAlwaysConsistent == [][StatsAnswers => StatsAgree]_vars

\* C5 as amended: the same of every stats response whose counting queries
\* ran with no create or soft-delete committing in between.
C5_StatsConsistentWhenQuiet == [][(StatsAnswers /\ ~dirty) => StatsAgree]_vars

\* an undisturbed stats request has answered with posts and images to count
C5_Witness ==
    /\ hist = "quiet"
    /\ resp.op = "stats"
    /\ resp.data.with_images >= 1
    /\ resp.data.total_footprints > resp.data.with_images

\* C6: a list request with page < 1 or page_size < 1 is rejected or clamped:
\* the query never runs with a negative offset or a limit below 1, and no
\* success response is computed from such values.
C6_BadPagingNeverQueried ==
    /\ pc_list = "select" => offset >= 0 /\ page_size >= 1
    /\ (resp.op = "list" /\ resp.status = 200)
       => resp.pagination.page >= 1 /\ resp.pagination.page_size >= 1

\* C7: deleting an id that no post has reports success and changes nothing:
\* table, key sequence, files, and what list and stats compute from them.
C7_DeleteMissingIsNoOp ==
    [][(DeleteAnswers /\ resp'.id \notin DOMAIN rows)
          => /\ resp'.success /\ resp'.status = 200
             /\ rows' = rows /\ seq' = seq /\ files' = files
             /\ OrderByTimestampDesc(rows', Live(rows'))
                   = OrderByTimestampDesc(rows, Live(rows))
             /\ WithImage(rows') = WithImage(rows)
             /\ TopUsers(rows') = TopUsers(rows)]_vars

\* a delete of a missing id has been answered while posts are stored
C7_Witness ==
    /\ hist = "missing"
    /\ resp.op = "delete" /\ resp.id \notin DOMAIN rows
    /\ DOMAIN rows /= {}

\* C8: a create without userName is rejected with 400 (empty author); one
\* with userName but neither content nor imageData is rejected with 400
\* (empty body); neither inserts a row, writes a file or moves the next id.
C8_InvalidCreateRejected ==
    [][hist' \in {"no author", "no body"}
       => /\ resp'.op = "create" /\ resp'.status = 400 /\ ~resp'.success
          /\ resp'.message = (IF hist' = "no author" THEN "username must not be empty"
                              ELSE "content or image required")
          /\ rows' = rows /\ files' = files /\ seq' = seq
          /\ NextId(rows', seq') = NextId(rows, seq)]_vars

\* an empty-body create has been rejected with posts and files stored
C8_Witness ==
    /\ hist = "no body"
    /\ resp.status = 400
    /\ DOMAIN rows /= {} /\ DOMAIN files /= {}

C10_RefusedImageLeavesNoFile ==
    [][(/\ hist' = "complete" /\ resp'.op = "create" /\ resp'.status = 200
        /\ resp'.data.imageUrl = Null)
       => files' = files]_vars
====
